---- MODULE Spec2Model ----
(***************************************************************************)
(* TreeTool (src/treetool.py): the directory walker TreeGenerator, the     *)
(* ignore-pattern matcher and the command-line entry point main.           *)
(*                                                                         *)
(* Strings are tuples of code points, so that lower(), the comparison of   *)
(* sort keys, startswith('.') and the concatenation of prefix, connector   *)
(* and name are computed as Python computes them.  A Path is the number of *)
(* a node of the filesystem snapshot fs; the root is node 0.               *)
(***************************************************************************)
EXTENDS Integers, Sequences, FiniteSets, TLC

(***************************************************************************)
(* Bounds of the model.                                                    *)
(***************************************************************************)
MaxNodes == 3
MaxCalls == 2
MaxOptions == 2
MaxDenied == 1
MaxArgs == 3
MainNodes == 1

(***************************************************************************)
(* Strings.                                                                *)
(***************************************************************************)
\* "/" appended to a directory's line (line 247); "." the hidden marker (line 211)
SLASH == <<47>>
DOT == <<46>>
NEWLINE == <<10>>

\* str.lower() on one code point: A..Z become a..z
LowerChar(c) == IF c >= 65 /\ c <= 90 THEN c + 32 ELSE c

\* str.lower()
lower(s) == [i \in 1..Len(s) |-> LowerChar(s[i])]

\* Python's str < str: lexicographic on code points
RECURSIVE StrLess(_, _)
StrLess(a, b) ==
    IF b = <<>> THEN FALSE
    ELSE IF a = <<>> THEN TRUE
    ELSE IF a[1] < b[1] THEN TRUE
    ELSE IF a[1] > b[1] THEN FALSE
    ELSE StrLess(Tail(a), Tail(b))

\* str.startswith
startswith(s, p) == Len(s) >= Len(p) /\ SubSeq(s, 1, Len(p)) = p

\* str.endswith
endswith(s, p) == Len(s) >= Len(p) /\ SubSeq(s, Len(s) - Len(p) + 1, Len(s)) = p

\* sep.join(lines)
RECURSIVE join(_, _)
join(sep, lines) ==
    IF lines = <<>> THEN <<>>
    ELSE IF Len(lines) = 1 THEN lines[1]
    ELSE lines[1] \o sep \o join(sep, Tail(lines))

\* s * n
RECURSIVE Repeat(_, _)
Repeat(s, n) == IF n <= 0 THEN <<>> ELSE s \o Repeat(s, n - 1)

\* str(n) for an int n >= 0, as the f-strings of _append_stats format it
RECURSIVE str(_)
str(n) == IF n < 10 THEN <<48 + n>> ELSE str(n \div 10) \o <<48 + (n % 10)>>

(***************************************************************************)
(* Constants & Configuration (lines 27-74).                                *)
(***************************************************************************)
TreeStyle == {"ascii", "unicode", "bold", "minimal"}

\* STYLES: (branch, last_branch, vertical, space)
STYLES ==
    [ascii   |-> << <<124, 45, 45, 32>>, <<43, 45, 45, 32>>,
                    <<124, 32, 32, 32>>, <<32, 32, 32, 32>> >>,
     unicode |-> << <<9500, 9472, 9472, 32>>, <<9492, 9472, 9472, 32>>,
                    <<9474, 32, 32, 32>>, <<32, 32, 32, 32>> >>,
     bold    |-> << <<9507, 9473, 9473, 32>>, <<9495, 9473, 9473, 32>>,
                    <<9475, 32, 32, 32>>, <<32, 32, 32, 32>> >>,
     minimal |-> << <<124, 45, 45, 32>>, <<96, 45, 45, 32>>,
                    <<124, 32, 32, 32>>, <<32, 32, 32, 32>> >>]

\* python: __pycache__, *.pyc, *.pyo, *.pyd, .Python, *.so, .venv, venv, ENV, env, *.egg-info, *.egg, dist, build, .pytest_cache, .mypy_cache, .tox, *.py[cod], .coverage, htmlcov
Preset_python ==
    {
      <<95, 95, 112, 121, 99, 97, 99, 104, 101, 95, 95>>,
      <<42, 46, 112, 121, 99>>,
      <<42, 46, 112, 121, 111>>,
      <<42, 46, 112, 121, 100>>,
      <<46, 80, 121, 116, 104, 111, 110>>,
      <<42, 46, 115, 111>>,
      <<46, 118, 101, 110, 118>>,
      <<118, 101, 110, 118>>,
      <<69, 78, 86>>,
      <<101, 110, 118>>,
      <<42, 46, 101, 103, 103, 45, 105, 110, 102, 111>>,
      <<42, 46, 101, 103, 103>>,
      <<100, 105, 115, 116>>,
      <<98, 117, 105, 108, 100>>,
      <<46, 112, 121, 116, 101, 115, 116, 95, 99, 97, 99, 104, 101>>,
      <<46, 109, 121, 112, 121, 95, 99, 97, 99, 104, 101>>,
      <<46, 116, 111, 120>>,
      <<42, 46, 112, 121, 91, 99, 111, 100, 93>>,
      <<46, 99, 111, 118, 101, 114, 97, 103, 101>>,
      <<104, 116, 109, 108, 99, 111, 118>> }

\* node: node_modules, npm-debug.log*, yarn-debug.log*, yarn-error.log*, .npm, .yarn, dist, build, .next, .nuxt, coverage
Preset_node ==
    {
      <<110, 111, 100, 101, 95, 109, 111, 100, 117, 108, 101, 115>>,
      <<110, 112, 109, 45, 100, 101, 98, 117, 103, 46, 108, 111, 103, 42>>,
      <<121, 97, 114, 110, 45, 100, 101, 98, 117, 103, 46, 108, 111, 103, 42>>,
      <<121, 97, 114, 110, 45, 101, 114, 114, 111, 114, 46, 108, 111, 103, 42>>,
      <<46, 110, 112, 109>>,
      <<46, 121, 97, 114, 110>>,
      <<100, 105, 115, 116>>,
      <<98, 117, 105, 108, 100>>,
      <<46, 110, 101, 120, 116>>,
      <<46, 110, 117, 120, 116>>,
      <<99, 111, 118, 101, 114, 97, 103, 101>> }

\* git: .git, .gitignore, .gitattributes, .gitmodules
Preset_git ==
    {
      <<46, 103, 105, 116>>,
      <<46, 103, 105, 116, 105, 103, 110, 111, 114, 101>>,
      <<46, 103, 105, 116, 97, 116, 116, 114, 105, 98, 117, 116, 101, 115>>,
      <<46, 103, 105, 116, 109, 111, 100, 117, 108, 101, 115>> }

\* ide: .idea, .vscode, *.swp, *.swo, *~, .project, .settings, .classpath, *.sublime-*, .atom
Preset_ide ==
    {
      <<46, 105, 100, 101, 97>>,
      <<46, 118, 115, 99, 111, 100, 101>>,
      <<42, 46, 115, 119, 112>>,
      <<42, 46, 115, 119, 111>>,
      <<42, 126>>,
      <<46, 112, 114, 111, 106, 101, 99, 116>>,
      <<46, 115, 101, 116, 116, 105, 110, 103, 115>>,
      <<46, 99, 108, 97, 115, 115, 112, 97, 116, 104>>,
      <<42, 46, 115, 117, 98, 108, 105, 109, 101, 45, 42>>,
      <<46, 97, 116, 111, 109>> }

\* lines 46-74; "all" is the union of the other four
PRESETS ==
    [python |-> Preset_python, node |-> Preset_node, git |-> Preset_git,
     ide |-> Preset_ide,
     all |-> Preset_python \cup Preset_node \cup Preset_git \cup Preset_ide]

\* Optional[int]: None is the empty tuple, an int k is <<k>>
None == <<>>
Some(k) == <<k>>

(***************************************************************************)
(* The filesystem snapshot.  Nodes 1..Len(F.kind) are the entries below    *)
(* the root; F.parent[i] is the directory holding entry i, F.kind[i] what  *)
(* is_dir()/is_file() answer for it ("other": neither, e.g. a broken       *)
(* symlink), F.name[i] its name.  F.denied holds the directories whose     *)
(* listing raises PermissionError.  F.order is the order in which the      *)
(* operating system enumerates entries: iterdir yields the children of a   *)
(* directory in the order they stand in F.order.                           *)
(***************************************************************************)
Kinds == {"dir", "file", "other"}

\* "a", "B", "b", ".a"
Names == { <<97>>, <<66>>, <<98>>, <<46, 97>> }

Nodes(F) == 1..Len(F.kind)

is_dir(F, e) == e = 0 \/ F.kind[e] = "dir"

is_file(F, e) == e # 0 /\ F.kind[e] = "file"

Children(F, p) == {i \in Nodes(F) : F.parent[i] = p}

\* list(path.iterdir()), when it does not raise
iterdir(F, p) ==
    LET IsChild(i) == F.parent[i] = p
    IN  SelectSeq(F.order, IsChild)

\* the trees with exactly n entries below the root; an entry's parent is
\* a directory, siblings have different names; the entries are numbered
\* so that parents never decrease (every tree with every enumeration
\* order of every directory has such a numbering)
RECURSIVE ShapesN(_)
ShapesN(n) ==
    IF n = 0 THEN {[parent |-> <<>>, kind |-> <<>>, name |-> <<>>]}
    ELSE { [parent |-> Append(t.parent, p),
            kind   |-> Append(t.kind, k),
            name   |-> Append(t.name, nm)] :
           <<t, p, k, nm>> \in
             { x \in ShapesN(n - 1) \X (0..(n - 1)) \X Kinds \X Names :
                 /\ (n = 1 \/ x[2] >= x[1].parent[n - 1])
                 /\ (x[2] = 0 \/ x[1].kind[x[2]] = "dir")
                 /\ \A j \in 1..(n - 1) :
                       x[1].parent[j] = x[2] => x[1].name[j] # x[4] } }

Shapes == UNION { ShapesN(n) : n \in 0..MaxNodes }

Dirs(t) == {0} \cup {i \in 1..Len(t.kind) : t.kind[i] = "dir"}

Identity(n) == [i \in 1..n |-> i]

FileSystems ==
    { [parent |-> t.parent, kind |-> t.kind, name |-> t.name,
       denied |-> d, order |-> Identity(Len(t.kind))] :
      <<t, d>> \in { x \in Shapes \X SUBSET (0..MaxNodes) :
                       x[2] \subseteq Dirs(x[1]) /\ Cardinality(x[2]) <= MaxDenied } }

(***************************************************************************)
(* TreeConfig (lines 81-93): a dataclass; its generated __init__ stores    *)
(* the fields and validates nothing.                                       *)
(***************************************************************************)
TreeConfig(c) ==
    [root_path |-> c.root_path, max_depth |-> c.max_depth,
     dirs_only |-> c.dirs_only, files_only |-> c.files_only,
     alphabetic |-> c.alphabetic, style |-> c.style,
     show_stats |-> c.show_stats, use_color |-> c.use_color,
     ignore_patterns |-> c.ignore_patterns, ignore_hidden |-> c.ignore_hidden]

\* TreeStats() (lines 96-101)
TreeStats == [total_dirs |-> 0, total_files |-> 0, max_depth_reached |-> 0]

(***************************************************************************)
(* IgnorePatternMatcher (lines 127-146).                                   *)
(***************************************************************************)
\* fnmatch.fnmatch(name, pat): "*" (42), "?" (63) and "[seq]" (91, 93;
\* "!" (33) negates, "-" (45) makes a range); case-sensitive on POSIX,
\* anchored at both ends.
\* the index of the "]" closing the class that opens at pat[1], 0 if none
RECURSIVE ScanClass(_, _)
ScanClass(pat, j) ==
    IF j > Len(pat) THEN 0
    ELSE IF pat[j] = 93 THEN j
    ELSE ScanClass(pat, j + 1)

ClassEnd(pat) ==
    LET j1 == IF Len(pat) >= 2 /\ pat[2] = 33 THEN 3 ELSE 2
        j2 == IF j1 <= Len(pat) /\ pat[j1] = 93 THEN j1 + 1 ELSE j1
    IN  ScanClass(pat, j2)

\* whether the characters and ranges of a class body hold ch
RECURSIVE ClassHolds(_, _)
ClassHolds(body, ch) ==
    IF body = <<>> THEN FALSE
    ELSE IF Len(body) >= 3 /\ body[2] = 45
         THEN (body[1] <= ch /\ ch <= body[3])
              \/ ClassHolds(SubSeq(body, 4, Len(body)), ch)
    ELSE body[1] = ch \/ ClassHolds(Tail(body), ch)

InClass(stuff, ch) ==
    IF stuff[1] = 33 THEN ~ClassHolds(Tail(stuff), ch) ELSE ClassHolds(stuff, ch)

RECURSIVE fnmatch(_, _)
fnmatch(name, pat) ==
    IF pat = <<>> THEN name = <<>>
    ELSE IF pat[1] = 42
         THEN fnmatch(name, Tail(pat))
              \/ (name # <<>> /\ fnmatch(Tail(name), pat))
    ELSE IF pat[1] = 63
         THEN name # <<>> /\ fnmatch(Tail(name), Tail(pat))
    ELSE IF pat[1] = 91 /\ ClassEnd(pat) # 0
         THEN /\ name # <<>>
              /\ InClass(SubSeq(pat, 2, ClassEnd(pat) - 1), name[1])
              /\ fnmatch(Tail(name), SubSeq(pat, ClassEnd(pat) + 1, Len(pat)))
    ELSE name # <<>> /\ name[1] = pat[1] /\ fnmatch(Tail(name), Tail(pat))

should_ignore(patterns, name, isdir) ==
    \E pattern \in patterns :
        IF endswith(pattern, SLASH)
        THEN isdir /\ fnmatch(name, SubSeq(pattern, 1, Len(pattern) - 1))
        ELSE fnmatch(name, pattern) \/ name = pattern

(***************************************************************************)
(* TreeGenerator._walk_directory (lines 191-257).                          *)
(***************************************************************************)
\* line 194 with > for >=: one level too many
DepthLimited_OffByOne(config, depth) ==
    config.max_depth # None /\ depth > config.max_depth[1]

\* line 194: the depth limit
DepthLimited(config, depth) ==
    config.max_depth # None /\ depth >= config.max_depth[1]

\* lines 209-224: whether an entry survives the filters
Survives(F, config, entry) ==
    /\ ~(config.ignore_hidden /\ startswith(F.name[entry], DOT))
    /\ ~should_ignore(config.ignore_patterns, F.name[entry], is_dir(F, entry))
    /\ ~(config.dirs_only /\ ~is_dir(F, entry))
    /\ ~(config.files_only /\ is_dir(F, entry))

\* lines 208-224
FilterEntries(F, config, entries) ==
    LET Keep(entry) == Survives(F, config, entry)
    IN  SelectSeq(entries, Keep)

\* the sort key without .lower()
SortKey_CaseSensitive(F, e) == F.name[e]

\* the key of lines 228, 232, 234: e.name.lower()
SortKey(F, e) == lower(F.name[e])

\* list.sort / sorted with that key: stable, so entries with equal keys
\* keep the order they came in
RECURSIVE Insert(_, _, _)
Insert(F, sortedSeq, e) ==
    IF sortedSeq = <<>> THEN <<e>>
    ELSE IF StrLess(SortKey(F, e), SortKey(F, sortedSeq[Len(sortedSeq)]))
         THEN Append(Insert(F, SubSeq(sortedSeq, 1, Len(sortedSeq) - 1), e),
                     sortedSeq[Len(sortedSeq)])
         ELSE Append(sortedSeq, e)

RECURSIVE sorted(_, _)
sorted(F, entries) ==
    IF entries = <<>> THEN <<>>
    ELSE Insert(F, sorted(F, SubSeq(entries, 1, Len(entries) - 1)),
                entries[Len(entries)])

\* lines 226-235
SortEntries(F, config, filtered_entries) ==
    IF config.alphabetic
    THEN sorted(F, filtered_entries)
    ELSE LET IsDir(e) == is_dir(F, e)
             IsFile(e) == is_file(F, e)
             dirs == sorted(F, SelectSeq(filtered_entries, IsDir))
             files == sorted(F, SelectSeq(filtered_entries, IsFile))
         IN  dirs \o files

\* line 242
Connector(style_chars, is_last) ==
    IF is_last THEN style_chars[2] ELSE style_chars[1]

\* line 256 without the test of is_last
NewPrefix_AlwaysVertical(style_chars, prefix, is_last) ==
    prefix \o style_chars[3]

\* line 256
NewPrefix(style_chars, prefix, is_last) ==
    prefix \o (IF is_last THEN style_chars[4] ELSE style_chars[3])

\* lines 245-252: the entry's line is appended and the entry counted
EmitLine(F, g, prefix, connector, entry) ==
    [g EXCEPT
       !.stats.total_dirs = IF is_dir(F, entry) THEN @ + 1 ELSE @,
       !.stats.total_files = IF is_dir(F, entry) THEN @ ELSE @ + 1,
       !.output_lines = Append(@, prefix \o connector \o F.name[entry]
                                  \o (IF is_dir(F, entry) THEN SLASH ELSE <<>>)),
       !.line_entry = Append(@, entry)]

\* lines 202-205 without the except clause: the error propagates
OnPermissionError_Raise(g) == [g EXCEPT !.exc = "PermissionError"]

\* lines 204-205: except PermissionError: return
OnPermissionError(g) == g

\* lines 198-199, and the record of the iterdir call of line 203
EnterDirectory(g, path, depth) ==
    [g EXCEPT
       !.stats.max_depth_reached = IF depth > @ THEN depth ELSE @,
       !.listed = Append(@, <<path, depth>>)]

\* The generator while a walk runs.  output_lines and stats are the
\* object's fields; exc is the exception in flight ("" when none);
\* line_entry (the entry each line was emitted for: 0 for the root line,
\* -1 for a line of the statistics block) and listed (the directories
\* iterdir was called on, each with the depth of the call) record what
\* the walk did.
RECURSIVE _walk_directory(_, _, _, _, _, _)
RECURSIVE EmitEntries(_, _, _, _, _, _, _)

\* lines 240-257: the loop over filtered_entries, from index i on; an
\* exception raised by the recursive call leaves the loop
EmitEntries(F, config, filtered_entries, i, prefix, depth, g) ==
    IF i > Len(filtered_entries) \/ g.exc # "" THEN g
    ELSE LET entry == filtered_entries[i]
             style_chars == STYLES[config.style]
             is_last == (i = Len(filtered_entries))
             g1 == EmitLine(F, g, prefix, Connector(style_chars, is_last), entry)
             g2 == IF is_dir(F, entry)
                   THEN _walk_directory(F, config, entry,
                            NewPrefix(style_chars, prefix, is_last),
                            depth + 1, g1)
                   ELSE g1
         IN  EmitEntries(F, config, filtered_entries, i + 1, prefix, depth, g2)

_walk_directory(F, config, path, prefix, depth, g) ==
    IF DepthLimited(config, depth) THEN g
    ELSE LET g1 == EnterDirectory(g, path, depth)
         IN  IF path \in F.denied THEN OnPermissionError(g1)
             ELSE EmitEntries(F, config,
                      SortEntries(F, config,
                          FilterEntries(F, config, iterdir(F, path))),
                      1, prefix, depth, g1)

\* lines 259-266
_append_stats(g) ==
    [g EXCEPT
       !.output_lines = @ \o
           << <<>>,
              Repeat(<<45>>, 40),
              <<68, 105, 114, 101, 99, 116, 111, 114, 105, 101, 115, 58, 32>>
                  \o str(g.stats.total_dirs),
              <<70, 105, 108, 101, 115, 58, 32, 32, 32, 32, 32, 32, 32>>
                  \o str(g.stats.total_files),
              <<77, 97, 120, 32, 68, 101, 112, 116, 104, 58, 32, 32, 32>>
                  \o str(g.stats.max_depth_reached),
              Repeat(<<45>>, 40) >>,
       !.line_entry = @ \o <<-1, -1, -1, -1, -1, -1>>]

\* line 181: root_path.name or str(root_path); the root "/" has no name
RootName(root_path) ==
    IF root_path.name # <<>> THEN root_path.name ELSE root_path.str

\* TreeGenerator.__init__ (lines 169-174)
NewGenerator ==
    [output_lines |-> <<>>, stats |-> TreeStats, exc |-> "",
     line_entry |-> <<>>, listed |-> <<>>]

\* line 178 without line 179: the statistics are kept
ResetGenerator_KeepStats(g) ==
    [g EXCEPT !.output_lines = <<>>, !.line_entry = <<>>, !.listed = <<>>]

\* lines 178-179: generate starts from empty lines and fresh statistics
ResetGenerator(g) ==
    [g EXCEPT !.output_lines = <<>>, !.stats = TreeStats, !.line_entry = <<>>,
              !.listed = <<>>]

\* TreeGenerator.generate (lines 176-189) up to the join: the generator
\* after the call
generate(F, config, g) ==
    LET g0 == ResetGenerator(g)
        g1 == [g0 EXCEPT
                 !.output_lines = Append(@, RootName(config.root_path)),
                 !.line_entry = Append(@, 0)]
        g2 == _walk_directory(F, config, 0, <<>>, 0, g1)
    IN  IF g2.exc = "" /\ config.show_stats THEN _append_stats(g2) ELSE g2

\* line 189: the text generate returns
GenerateText(g) == join(NEWLINE, g.output_lines)

(***************************************************************************)
(* The configurations a caller builds.                                     *)
(***************************************************************************)
\* root_path: "/p" (name "p") or the filesystem root "/" (empty name)
DefaultRoot == [name |-> <<112>>, str |-> <<47, 112>>]

RootPaths == { DefaultRoot, [name |-> <<>>, str |-> <<47>>] }

Depths == {None} \cup {Some(k) : k \in 0..(MaxNodes - 1)}

\* ignore_patterns: none; the glob "*a"; the directory-only "B/" with the
\* exact name "b"
PatternSets == { {}, { <<42, 97>> }, { <<66, 47>>, <<98>> } }

AllConfigs ==
    [root_path : RootPaths, max_depth : Depths, dirs_only : BOOLEAN,
     files_only : BOOLEAN, alphabetic : BOOLEAN, style : TreeStyle,
     show_stats : BOOLEAN, use_color : {FALSE},
     ignore_patterns : PatternSets, ignore_hidden : BOOLEAN]

\* how many of the options that steer the walk differ from the defaults
WalkOptions(c) ==
      (IF c.max_depth # None THEN 1 ELSE 0)
    + (IF c.dirs_only THEN 1 ELSE 0)
    + (IF c.files_only THEN 1 ELSE 0)
    + (IF c.alphabetic THEN 1 ELSE 0)
    + (IF c.ignore_patterns # {} THEN 1 ELSE 0)
    + (IF c.ignore_hidden THEN 1 ELSE 0)

\* how many of the options that only change the text differ
ShowOptions(c) ==
      (IF c.root_path # DefaultRoot THEN 1 ELSE 0)
    + (IF c.style # "ascii" THEN 1 ELSE 0)
    + (IF c.show_stats THEN 1 ELSE 0)

\* every combination of up to MaxOptions walk options, and every single
\* text option
Configs ==
    { c \in AllConfigs :
        \/ WalkOptions(c) <= MaxOptions /\ ShowOptions(c) = 0
        \/ WalkOptions(c) = 0 /\ ShowOptions(c) = 1 }

(***************************************************************************)
(* Colors.colorize (lines 115-120) and OutputFormatter (lines 273-302).    *)
(***************************************************************************)
\* BG_BLACK, BRIGHT_GREEN, text, RESET
colorize(text, enabled) ==
    IF ~enabled THEN text
    ELSE <<27, 91, 52, 48, 109>> \o <<27, 91, 57, 50, 109>> \o text
         \o <<27, 91, 48, 109>>

\* "1.0.0"
VERSION == <<49, 46, 48, 46, 48>>

format_markdown(tree, root_path) ==
    join(NEWLINE,
         << <<35, 32, 68, 105, 114, 101, 99, 116, 111, 114, 121, 32, 83, 116,
              114, 117, 99, 116, 117, 114, 101, 58, 32, 96>> \o root_path \o <<96>>,
            <<>>,
            <<96, 96, 96>>,
            tree,
            <<96, 96, 96>>,
            <<>>,
            <<42, 71, 101, 110, 101, 114, 97, 116, 101, 100, 32, 119, 105, 116,
              104, 32, 84, 114, 101, 101, 84, 111, 111, 108, 32, 118>>
                \o VERSION \o <<42>> >>)

format_text(tree, root_path) ==
    join(NEWLINE,
         << <<68, 105, 114, 101, 99, 116, 111, 114, 121, 32, 83, 116, 114, 117,
              99, 116, 117, 114, 101, 58, 32>> \o root_path,
            Repeat(<<61>>, 50),
            <<>>,
            tree,
            <<>>,
            Repeat(<<61>>, 50),
            <<71, 101, 110, 101, 114, 97, 116, 101, 100, 32, 119, 105, 116, 104,
              32, 84, 114, 101, 101, 84, 111, 111, 108, 32, 118>> \o VERSION >>)

(***************************************************************************)
(* IgnorePatternMatcher.from_file (lines 148-159).  A file is a record:    *)
(* whether it exists, and its lines.                                       *)
(***************************************************************************)
\* str.strip(): space, tab, newline, vertical tab, form feed, return
IsSpace(ch) == ch \in {32, 9, 10, 11, 12, 13}

RECURSIVE lstrip(_)
lstrip(line) ==
    IF line # <<>> /\ IsSpace(line[1]) THEN lstrip(Tail(line)) ELSE line

RECURSIVE rstrip(_)
rstrip(line) ==
    IF line # <<>> /\ IsSpace(line[Len(line)])
    THEN rstrip(SubSeq(line, 1, Len(line) - 1)) ELSE line

strip(line) == rstrip(lstrip(line))

from_file(filepath) ==
    IF ~filepath.exists THEN {}
    ELSE { strip(filepath.lines[i]) :
             i \in { k \in 1..Len(filepath.lines) :
                       /\ strip(filepath.lines[k]) # <<>>
                       /\ ~startswith(strip(filepath.lines[k]), <<35>>) } }

(***************************************************************************)
(* The command lines main is run with: what parse_args returned (lines     *)
(* 309-413, 423), with what the paths it names are on disk.                *)
(***************************************************************************)
\* Path(args.path).resolve(): the directory the snapshot is of ("/p" or
\* "/"), the regular file "/f", or the missing "/m"
PathArgs ==
    { [exists |-> TRUE, is_dir |-> TRUE, name |-> <<112>>, str |-> <<47, 112>>],
      [exists |-> TRUE, is_dir |-> TRUE, name |-> <<>>, str |-> <<47>>],
      [exists |-> TRUE, is_dir |-> FALSE, name |-> <<102>>, str |-> <<47, 102>>],
      [exists |-> FALSE, is_dir |-> FALSE, name |-> <<109>>, str |-> <<47, 109>>] }

DefaultPath ==
    [exists |-> TRUE, is_dir |-> TRUE, name |-> <<112>>, str |-> <<47, 112>>]

PresetArgs == { <<>>, <<"git">>, <<"python", "git">> }

\* --ignore-file: the file "i" with the lines "# c", "", " *a " and "B/",
\* or the missing file "n"
IgnoreFileArgs ==
    { None,
      Some([exists |-> TRUE, str |-> <<105>>,
            lines |-> << <<35, 32, 99>>, <<>>, <<32, 42, 97, 32>>, <<66, 47>> >>]),
      Some([exists |-> FALSE, str |-> <<110>>, lines |-> <<>>]) }

\* --exclude b
ExcludeArgs == { <<>>, << <<98>> >> }

\* --output: "t.md", "T.MD" or "t.txt", which can be written, or "t.md" in
\* a place where open() fails
OutputArgs ==
    { None,
      Some([str |-> <<116, 46, 109, 100>>, writable |-> TRUE]),
      Some([str |-> <<84, 46, 77, 68>>, writable |-> TRUE]),
      Some([str |-> <<116, 46, 116, 120, 116>>, writable |-> TRUE]),
      Some([str |-> <<116, 46, 109, 100>>, writable |-> FALSE]) }

NoArgs ==
    [path |-> DefaultPath, preset |-> <<>>, ignore_file |-> None,
     exclude |-> <<>>, dirs_only |-> FALSE, files_only |-> FALSE,
     depth |-> None, alphabetic |-> FALSE, style |-> "ascii",
     stats |-> FALSE, color |-> FALSE, no_hidden |-> FALSE, output |-> None]

\* the values an argument of the command line can be given
ArgValues ==
    [path |-> PathArgs, preset |-> PresetArgs, ignore_file |-> IgnoreFileArgs,
     exclude |-> ExcludeArgs, dirs_only |-> BOOLEAN, files_only |-> BOOLEAN,
     depth |-> Depths, alphabetic |-> BOOLEAN, style |-> TreeStyle,
     stats |-> BOOLEAN, color |-> BOOLEAN, no_hidden |-> BOOLEAN,
     output |-> OutputArgs]

\* the command lines with at most n arguments given
RECURSIVE CommandLinesN(_)
CommandLinesN(n) ==
    IF n = 0 THEN {NoArgs}
    ELSE LET fewer == CommandLinesN(n - 1)
         IN  fewer \cup UNION { { [a EXCEPT ![f] = v] : v \in ArgValues[f] } :
                                <<a, f>> \in fewer \X DOMAIN ArgValues }

CommandLines == CommandLinesN(MaxArgs)

\* the snapshots main is run on
MainFileSystems == { F \in FileSystems : Len(F.kind) <= MainNodes }

(***************************************************************************)
(* The state: the filesystem snapshot, the program's position, the         *)
(* TreeConfig and TreeGenerator objects, the text the last generate call   *)
(* returned, the number of generate calls made and what the first of them  *)
(* returned and left in stats; for a run of main, args, the exit code      *)
(* (-1 until main returns), what was printed to stdout and stderr and the  *)
(* output file written (None when none was).                               *)
(***************************************************************************)
VARIABLES fs, pc, config, generator, tree_output, calls, first, args, exit_code, stdout, stderr, written

vars == <<fs, pc, config, generator, tree_output, calls, first, args, exit_code, stdout, stderr, written>>

lib_vars == <<fs, pc, config, generator, tree_output, calls, first>>

main_vars == <<args, exit_code, stdout, stderr, written>>

NoConfig ==
    [root_path |-> DefaultRoot, max_depth |-> None, dirs_only |-> FALSE,
     files_only |-> FALSE, alphabetic |-> FALSE, style |-> "ascii",
     show_stats |-> FALSE, use_color |-> FALSE, ignore_patterns |-> {},
     ignore_hidden |-> FALSE]

NoFirst == [text |-> <<>>, stats |-> TreeStats]

InitObjects ==
    /\ pc = "start"
    /\ config = NoConfig
    /\ generator = NewGenerator
    /\ tree_output = <<>>
    /\ calls = 0
    /\ first = NoFirst
    /\ args = NoArgs
    /\ exit_code = -1
    /\ stdout = <<>>
    /\ stderr = <<>>
    /\ written = None

Init == fs \in FileSystems /\ InitObjects

(***************************************************************************)
(* A program that uses the classes: config = TreeConfig(...),              *)
(* generator = TreeGenerator(config), then generator.generate(), at most   *)
(* MaxCalls times.                                                         *)
(***************************************************************************)
Construct(c) ==
    /\ pc = "start"
    /\ config' = TreeConfig(c)
    /\ generator' = NewGenerator
    /\ pc' = "ready"
    /\ UNCHANGED <<fs, tree_output, calls, first>>
    /\ UNCHANGED main_vars

\* tree_output = generator.generate(); an exception leaves tree_output
\* unassigned and ends the caller
CallGenerate(after) ==
    /\ generator' = generate(fs, config, generator)
    /\ calls' = calls + 1
    /\ IF generator'.exc # ""
       THEN /\ pc' = "raised"
            /\ UNCHANGED <<tree_output, first>>
       ELSE /\ pc' = after
            /\ tree_output' = GenerateText(generator')
            /\ first' = IF calls = 0
                        THEN [text |-> tree_output', stats |-> generator'.stats]
                        ELSE first
    /\ UNCHANGED <<fs, config>>

Generate ==
    /\ pc = "ready"
    /\ calls < MaxCalls
    /\ CallGenerate("ready")
    /\ UNCHANGED main_vars

Next ==
    \/ \E c \in Configs : Construct(c)
    \/ Generate

Spec == Init /\ [][Next]_vars

(***************************************************************************)
(* main (lines 420-502), from the return of parse_args on.                 *)
(***************************************************************************)
\* a value is true in a condition: not None and not the empty string
Truthy(opt) == opt # None /\ opt[1].str # <<>>

\* lines 435-451: presets, then the ignore file, then --exclude
CollectPatterns(a) ==
    UNION { PRESETS[a.preset[i]] : i \in 1..Len(a.preset) }
    \cup (IF Truthy(a.ignore_file) THEN from_file(a.ignore_file[1]) ELSE {})
    \cup { a.exclude[i] : i \in 1..Len(a.exclude) }

\* lines 454-457 left out
Conflicting_Never(a) == FALSE

\* line 454
Conflicting(a) == a.dirs_only /\ a.files_only

\* lines 460-471
ConfigOf(a) ==
    TreeConfig([root_path |-> [name |-> a.path.name, str |-> a.path.str],
                max_depth |-> a.depth,
                dirs_only |-> a.dirs_only,
                files_only |-> a.files_only,
                alphabetic |-> a.alphabetic,
                style |-> a.style,
                show_stats |-> a.stats,
                use_color |-> a.color /\ ~Truthy(a.output),
                ignore_patterns |-> CollectPatterns(a),
                ignore_hidden |-> a.no_hidden])

\* return 1 after a message on stderr
Fail(text, arg) ==
    /\ stderr' = Append(stderr, [text |-> text, arg |-> arg])
    /\ exit_code' = 1
    /\ pc' = "exit"

\* lines 425-474: the path, the ignore file and the two type flags are
\* checked, then the configuration and the generator are built
MainValidate(a) ==
    /\ pc = "start"
    /\ args' = a
    /\ IF ~a.path.exists
       THEN Fail("Error: Path does not exist: ", a.path.str)
            /\ UNCHANGED <<config, generator>>
       ELSE IF ~a.path.is_dir
       THEN Fail("Error: Path is not a directory: ", a.path.str)
            /\ UNCHANGED <<config, generator>>
       ELSE IF Truthy(a.ignore_file) /\ ~a.ignore_file[1].exists
       THEN Fail("Error: Ignore file not found: ", a.ignore_file[1].str)
            /\ UNCHANGED <<config, generator>>
       ELSE IF Conflicting(a)
       THEN Fail("Error: --dirs-only and --files-only are mutually exclusive", <<>>)
            /\ UNCHANGED <<config, generator>>
       ELSE /\ config' = ConfigOf(a)
            /\ generator' = NewGenerator
            /\ pc' = "generate"
            /\ UNCHANGED <<stderr, exit_code>>
    /\ UNCHANGED <<fs, tree_output, calls, first, stdout, written>>

\* line 475
MainGenerate ==
    /\ pc = "generate"
    /\ CallGenerate("output")
    /\ UNCHANGED main_vars

\* Path.suffix of a one-segment path
RECURSIVE LastDot(_, _)
LastDot(name, i) ==
    IF i = 0 THEN 0 ELSE IF name[i] = 46 THEN i ELSE LastDot(name, i - 1)

suffix(name) ==
    LET i == LastDot(name, Len(name))
    IN  IF 1 < i /\ i < Len(name) THEN SubSeq(name, i, Len(name)) ELSE <<>>

\* lines 482-485
ContentOf(a, text) ==
    IF lower(suffix(a.output[1].str)) = <<46, 109, 100>>
    THEN format_markdown(text, a.path.name)
    ELSE format_text(text, a.path.name)

\* lines 477-502
MainOutput ==
    /\ pc = "output"
    /\ IF Truthy(args.output)
       THEN IF args.output[1].writable
            THEN /\ written' = Some(ContentOf(args, tree_output))
                 /\ stdout' = Append(stdout, [text |-> "Tree saved to: ",
                                              arg |-> args.output[1].str])
                 /\ exit_code' = 0
                 /\ pc' = "exit"
                 /\ UNCHANGED stderr
            ELSE /\ Fail("Error writing file: ", args.output[1].str)
                 /\ UNCHANGED <<written, stdout>>
       ELSE /\ stdout' = Append(stdout, [text |-> "",
                                         arg |-> colorize(tree_output, config.use_color)])
            /\ exit_code' = 0
            /\ pc' = "exit"
            /\ UNCHANGED <<written, stderr>>
    /\ UNCHANGED <<fs, config, generator, tree_output, calls, first, args>>

\* main is run with some command line
MainStart == pc = "start" /\ \E a \in CommandLines : MainValidate(a)

InitMain == fs \in MainFileSystems /\ InitObjects

NextMain ==
    \/ MainStart
    \/ MainGenerate
    \/ MainOutput

SpecMain == InitMain /\ [][NextMain]_vars

(***************************************************************************)
(* Notions the properties are stated in.                                   *)
(***************************************************************************)
\* generate has returned to the caller
Returned == pc = "ready" /\ calls >= 1

\* nesting level: the root is level 0, its entries are level 1
RECURSIVE Level(_, _)
Level(F, e) == IF e = 0 THEN 0 ELSE 1 + Level(F, F.parent[e])

\* within the configured depth k: at nesting level k at most
WithinDepth(F, c, e) == c.max_depth = None \/ Level(F, e) <= c.max_depth[1]

\* an entry is reachable when every directory above it can be listed
RECURSIVE Listable(_, _)
Listable(F, e) ==
    e = 0 \/ (F.parent[e] \notin F.denied /\ Listable(F, F.parent[e]))

Reachable(F, c, e) == Listable(F, e) /\ WithinDepth(F, c, e)

NoFilters(c) ==
    ~c.ignore_hidden /\ c.ignore_patterns = {} /\ ~c.dirs_only /\ ~c.files_only

\* the positions of the lines emitted for entries, and those entries
EntryLines(g) == {i \in 1..Len(g.line_entry) : g.line_entry[i] >= 1}

Emitted(g) == {g.line_entry[i] : i \in EntryLines(g)}

LineOf(g, e) == CHOOSE i \in EntryLines(g) : g.line_entry[i] = e

\* the directories whose listing was attempted, and those where it failed
ListedDirs(g) == {g.listed[i][1] : i \in 1..Len(g.listed)}

FailedDirs(F, g) == ListedDirs(g) \cap F.denied

\* C1: with no filters, the directory lines (entry lines ending in "/")
\* and total_dirs both number the directories reachable within the depth,
\* and the file lines and total_files both number the reachable entries
\* that are not directories
C1_Counts ==
    (Returned /\ NoFilters(config)) =>
        LET g == generator
            DirLines == {i \in EntryLines(g) : endswith(g.output_lines[i], SLASH)}
            FileLines == EntryLines(g) \ DirLines
            RDirs == {e \in Nodes(fs) : Reachable(fs, config, e) /\ is_dir(fs, e)}
            RFiles == {e \in Nodes(fs) : Reachable(fs, config, e) /\ ~is_dir(fs, e)}
        IN  /\ Cardinality(DirLines) = Cardinality(RDirs)
            /\ g.stats.total_dirs = Cardinality(RDirs)
            /\ Cardinality(FileLines) = Cardinality(RFiles)
            /\ g.stats.total_files = Cardinality(RFiles)

\* the root line is the first line, whatever the depth
RootLineEmitted ==
    /\ Len(generator.output_lines) >= 1
    /\ generator.output_lines[1] = RootName(config.root_path)
    /\ generator.line_entry[1] = 0

\* C2 as stated: with max_depth = k no entry at nesting level > k-1 is in
\* the output, and the root line is always emitted
C2_Original ==
    (Returned /\ config.max_depth # None) =>
        /\ \A e \in Emitted(generator) : Level(fs, e) <= config.max_depth[1] - 1
        /\ RootLineEmitted

\* C2 amended: with max_depth = k no entry at nesting level > k is in the
\* output (the root's entries are level 1), and the root line is always
\* emitted
C2_DepthLimit ==
    (Returned /\ config.max_depth # None) =>
        /\ \A e \in Emitted(generator) : Level(fs, e) <= config.max_depth[1]
        /\ RootLineEmitted

\* a run with max_depth = 1 over a tree with a level-2 entry under an
\* emitted directory: the level-1 entries are in the output, it is not
C2_Witness ==
    /\ Returned
    /\ config.max_depth = Some(1)
    /\ \E e \in Nodes(fs) :
          /\ Level(fs, e) = 2
          /\ fs.parent[e] \in Emitted(generator)
          /\ fs.parent[e] \notin fs.denied
          /\ Survives(fs, config, e)
          /\ e \notin Emitted(generator)

\* C3: the lines of siblings: by default every directory before every
\* file and each type in ascending case-insensitive name order; in
\* alphabetic mode all in ascending case-insensitive name order
C3_SiblingOrder ==
    Returned =>
        \A i, j \in EntryLines(generator) :
            LET a == generator.line_entry[i]
                b == generator.line_entry[j]
                InOrder == ~StrLess(lower(fs.name[b]), lower(fs.name[a]))
            IN  (i < j /\ fs.parent[a] = fs.parent[b]) =>
                    IF config.alphabetic THEN InOrder
                    ELSE /\ ~(is_file(fs, a) /\ is_dir(fs, b))
                         /\ (fs.kind[a] = fs.kind[b] => InOrder)

\* a default-mode run that put a directory before a file whose name
\* sorts first, and two files whose names differ in case in the order
\* only a case-insensitive comparison gives
C3_Witness ==
    /\ Returned
    /\ ~config.alphabetic
    /\ \E a, b \in Emitted(generator) :
          /\ fs.parent[a] = fs.parent[b]
          /\ is_dir(fs, a) /\ is_file(fs, b)
          /\ StrLess(lower(fs.name[b]), lower(fs.name[a]))
          /\ LineOf(generator, a) < LineOf(generator, b)
    /\ \E a, b \in Emitted(generator) :
          /\ fs.parent[a] = fs.parent[b]
          /\ fs.kind[a] = fs.kind[b]
          /\ StrLess(fs.name[b], fs.name[a])
          /\ LineOf(generator, a) < LineOf(generator, b)

\* among the lines of the entries of one directory, the last one
IsLastLine(F, g, e) ==
    \A x \in Emitted(g) : F.parent[x] = F.parent[e] => LineOf(g, x) <= LineOf(g, e)

\* one glyph per ancestor below the root, outermost first: space under an
\* ancestor that was the last line of its directory, vertical otherwise
RECURSIVE PrefixOf(_, _, _, _)
PrefixOf(F, c, g, e) ==
    IF F.parent[e] = 0 THEN <<>>
    ELSE PrefixOf(F, c, g, F.parent[e])
         \o (IF IsLastLine(F, g, F.parent[e])
             THEN STYLES[c.style][4] ELSE STYLES[c.style][3])

\* C4: the last line of each directory's entries starts with the
\* last-branch glyph and the earlier ones with the branch glyph; before
\* it stands the prefix of n-1 glyphs for an entry at nesting level n
C4_Connectors ==
    Returned =>
        \A e \in Emitted(generator) :
            LET prefix == PrefixOf(fs, config, generator, e)
                glyph == IF IsLastLine(fs, generator, e)
                         THEN STYLES[config.style][2] ELSE STYLES[config.style][1]
            IN  /\ Len(prefix) = 4 * (Level(fs, e) - 1)
                /\ generator.output_lines[LineOf(generator, e)] =
                       prefix \o glyph \o fs.name[e]
                       \o (IF is_dir(fs, e) THEN SLASH ELSE <<>>)

\* a run that emitted an entry below a directory that was not the last
\* of its siblings, and after it that directory's later sibling
C4_Witness ==
    /\ Returned
    /\ \E e \in Emitted(generator) :
          /\ Level(fs, e) = 2
          /\ ~IsLastLine(fs, generator, fs.parent[e])
          /\ IsLastLine(fs, generator, e)

\* the same snapshot enumerated in another order
Reordered(F, perm) == [F EXCEPT !.order = [i \in 1..Len(F.order) |-> perm[i]]]

\* C5: the text generate returns is the same for every order in which the
\* entries of the directories are enumerated
C5_Deterministic ==
    Returned =>
        \A perm \in Permutations(Nodes(fs)) :
            GenerateText(generate(Reordered(fs, perm), config, NewGenerator))
                = tree_output

\* the snapshot with every unlistable directory listable and empty
RECURSIVE UnderDenied(_, _)
UnderDenied(F, e) ==
    e # 0 /\ (F.parent[e] \in F.denied \/ UnderDenied(F, F.parent[e]))

Emptied(F) ==
    LET Stays(e) == ~UnderDenied(F, e)
    IN  [F EXCEPT !.denied = {}, !.order = SelectSeq(F.order, Stays)]

\* the directories total_dirs counted: those with an entry line
CountedDirs(F, g) == {e \in Emitted(g) : is_dir(F, e)}

\* what C6 says of a run apart from the count: generate returns; the
\* unlistable directory has a line; nothing below it has one; the lines
\* and statistics are those of the snapshot with it empty
RecoversFromPermissionError ==
    /\ pc # "raised"
    /\ generator.exc = ""
    /\ Returned =>
          /\ \A d \in FailedDirs(fs, generator) :
                \E i \in 1..Len(generator.line_entry) : generator.line_entry[i] = d
          /\ \A e \in Emitted(generator) : fs.parent[e] \notin fs.denied
          /\ generator.stats.total_dirs = Cardinality(CountedDirs(fs, generator))
          /\ LET asEmpty == generate(Emptied(fs), config, NewGenerator)
             IN  /\ asEmpty.output_lines = generator.output_lines
                 /\ asEmpty.stats = generator.stats

\* C6 as stated: ... and every directory whose listing failed is counted
\* in total_dirs
C6_Original ==
    /\ RecoversFromPermissionError
    /\ Returned =>
          FailedDirs(fs, generator) \subseteq CountedDirs(fs, generator)

\* C6 amended: ... and every directory whose listing failed, other than
\* the root, is counted in total_dirs (the root has its line and is never
\* counted)
C6_PermissionError ==
    /\ RecoversFromPermissionError
    /\ Returned =>
          /\ FailedDirs(fs, generator) \ {0} \subseteq CountedDirs(fs, generator)
          /\ 0 \notin CountedDirs(fs, generator)

\* a run over a tree with an unlistable directory that is not empty and
\* has a later sibling, which was emitted
C6_Witness ==
    /\ Returned
    /\ \E d \in FailedDirs(fs, generator) :
          /\ d # 0
          /\ Children(fs, d) # {}
          /\ \E s \in Emitted(generator) :
                /\ fs.parent[s] = fs.parent[d]
                /\ LineOf(generator, s) > LineOf(generator, d)

\* C8: generate never starts a traversal under a configuration with
\* dirs_only and files_only both true, because none can be constructed
C8_MutuallyExclusive ==
    ~(config.dirs_only /\ config.files_only /\ generator.listed # <<>>)

\* the largest depth at which a directory's listing was attempted
MaxListedDepth(g) ==
    IF g.listed = <<>> THEN 0
    ELSE CHOOSE d \in {g.listed[i][2] : i \in 1..Len(g.listed)} :
             \A i \in 1..Len(g.listed) : g.listed[i][2] <= d

\* C9: every generate call returns the text of the first and leaves the
\* statistics of the first, and max_depth_reached is the largest depth at
\* which a directory's listing was attempted
C9_Reset ==
    Returned =>
        /\ tree_output = first.text
        /\ generator.stats = first.stats
        /\ generator.stats.max_depth_reached = MaxListedDepth(generator)

\* a second call over a tree with a subdirectory, files and the
\* statistics block
C9_Witness ==
    /\ Returned
    /\ calls = 2
    /\ config.show_stats
    /\ generator.stats.total_files >= 1
    /\ generator.stats.max_depth_reached >= 1

\* C10: in every directory listed, the sorted list is a permutation of the
\* entries that survived the filters, and these are the entries emitted
C10_SortKeepsEntries ==
    Returned =>
        \A d \in ListedDirs(generator) \ fs.denied :
            LET filtered == FilterEntries(fs, config, iterdir(fs, d))
                ordered == SortEntries(fs, config, filtered)
                Range(q) == {q[i] : i \in 1..Len(q)}
            IN  /\ Len(ordered) = Len(filtered)
                /\ Range(ordered) = Range(filtered)
                /\ {e \in Emitted(generator) : fs.parent[e] = d} = Range(filtered)

\* C7: in a run of main with --dirs-only and --files-only both given, no
\* directory is ever listed, generate is never called, nothing is written
\* or printed to stdout, and main returns 1
C7_ExclusiveFlags ==
    (pc # "start" /\ args.dirs_only /\ args.files_only) =>
        /\ pc = "exit"
        /\ exit_code = 1
        /\ calls = 0
        /\ generator.listed = <<>>
        /\ written = None
        /\ stdout = <<>>

\* a run over an existing directory, with an output file named, that
\* ended on the check of the two flags
C7_Witness ==
    /\ pc = "exit"
    /\ args.dirs_only /\ args.files_only
    /\ args.path.exists /\ args.path.is_dir
    /\ args.output # None
    /\ exit_code = 1
    /\ stderr = << [text |-> "Error: --dirs-only and --files-only are mutually exclusive",
                    arg |-> <<>>] >>

====
